---- MODULE Spec2Model ----
(***************************************************************************)
(* Model of src/src/main.rs: a converter that reads a 48 kHz / mono /      *)
(* 24-bit PCM WAV file, trims or zero-pads it to 1024 samples, encodes a   *)
(* classic 44-byte-header PCM WAV and writes it with a                     *)
(* temp-file / fsync / rename protocol.                                    *)
(*                                                                         *)
(* Two specifications:                                                     *)
(*   Spec     one run of main() against a file system that has a visible   *)
(*            state (page cache + namespace) and a durable state (what a   *)
(*            power loss leaves), with process kill and power loss as      *)
(*            environment steps;                                           *)
(*   SpecEnc  build_classic_pcm24_wav_bytes as a pure function of an       *)
(*            arbitrary &[i32], including lengths near 2^32 / 3.           *)
(*                                                                         *)
(* TLC integers are 32-bit, so u32 / usize values whose width matters are  *)
(* kept as little-endian sequences of 16-bit limbs.                        *)
(***************************************************************************)
EXTENDS Integers, Sequences, FiniteSets, TLC

VARIABLES
    hdr,            \* input: hound's WavSpec of the input file
    input_samples,  \* input: the samples stored in the input file
    out_path,       \* input: args[2] as a sequence of path components
    prior,          \* the file system as it was when the run started
    pc,             \* position of the run
    in_open,        \* the WavReader (input file handle) is alive
    samples,        \* main's `samples` / the encoder's argument
    wav_bytes,      \* main's `wav_bytes` / the encoder's result
    tmp_open,       \* write_atomic_synced's `f` is alive
    err,            \* the anyhow error returned by main
    fs,             \* visible file system: path -> file
    disk,           \* durable file system: what survives a power loss
    pending,        \* a rename is visible but not yet durable
    log,            \* the system calls of the run so far, with their results
    big_len         \* SpecEnc: samples.len() of a slice too long to enumerate

vars == <<hdr, input_samples, out_path, prior, pc, in_open, samples, wav_bytes,
          tmp_open, err, fs, disk, pending, log, big_len>>

----------------------------------------------------------------------------
(* Program constants and model bounds *)

TARGET_SR == 48000
TARGET_SAMPLES == 1024

\* longest repeating pattern the input files' samples are built from
MaxPat == 2
\* longest fully enumerated i32 slice handed to the encoder in SpecEnc
MaxEncLen == 2

----------------------------------------------------------------------------
(* Fixed-width unsigned integers as little-endian 16-bit limbs *)

B16 == 256 * 256

\* a natural number below 2^31 as a u32 (2 limbs) / usize (4 limbs)
U32(x) == <<x % B16, x \div B16>>
Usize(x) == <<x % B16, x \div B16, 0, 0>>

RECURSIVE AddCarry(_, _, _, _)
AddCarry(a, b, i, c) ==
    IF i > Len(a) THEN <<c>>
    ELSE LET s == a[i] + b[i] + c
         IN  <<s % B16>> \o AddCarry(a, b, i + 1, s \div B16)

\* a + b in the width of a: the wrapped sum, and whether it overflowed
WrappingAdd(a, b) == SubSeq(AddCarry(a, b, 1, 0), 1, Len(a))
AddOverflows(a, b) == AddCarry(a, b, 1, 0)[Len(a) + 1] = 1

\* `x as u32` for a usize x: the low 32 bits
AsU32(x) == SubSeq(x, 1, 2)
\* a u32 widened to usize
AsUsize(x) == x \o <<0, 0>>

\* to_le_bytes() of a u16 / u32
LeBytes(x) == [i \in 1..(2 * Len(x)) |->
                 IF i % 2 = 1 THEN x[(i + 1) \div 2] % 256
                              ELSE x[i \div 2] \div 256]

----------------------------------------------------------------------------
(* Vec<i32> operations used by main *)

VecTruncate(v, n) == IF n < Len(v) THEN SubSeq(v, 1, n) ELSE v
VecResize(v, n, val) ==
    IF n > Len(v) THEN v \o [i \in 1..(n - Len(v)) |-> val]
    ELSE SubSeq(v, 1, n)

\* mutant of Normalize: the zero padding is forgotten
NormalizeTruncOnly(s) ==
    IF Len(s) >= TARGET_SAMPLES THEN VecTruncate(s, TARGET_SAMPLES) ELSE s

\* main, lines 26-30
Normalize(s) ==
    IF Len(s) >= TARGET_SAMPLES THEN VecTruncate(s, TARGET_SAMPLES)
    ELSE VecResize(s, TARGET_SAMPLES, 0)

----------------------------------------------------------------------------
(* build_classic_pcm24_wav_bytes *)

\* mutant of DataBytes: two bytes per sample
DataBytesTwoPerSample(len) ==
    LET n == Usize(len) IN AsU32(WrappingAdd(n, n))

\* line 79: (samples.len() * 3) as u32
DataBytes(len) ==
    LET n == Usize(len) IN AsU32(WrappingAdd(WrappingAdd(n, n), n))

\* line 82: 4u32 + (8 + 16) + (8 + data_bytes), wrapping as a release build does
RiffSize(len) ==
    WrappingAdd(U32(4 + (8 + 16)), WrappingAdd(U32(8), DataBytes(len)))

\* line 82 in a build with overflow checks: the addition panics
RiffSizeOverflows(len) ==
    \/ AddOverflows(U32(8), DataBytes(len))
    \/ AddOverflows(U32(4 + (8 + 16)), WrappingAdd(U32(8), DataBytes(len)))

\* lines 87-112: the 44 header bytes, a function of samples.len() alone
WavHeader(len) ==
    LET audio_format == <<1>>
        num_channels == 1
        sample_rate == TARGET_SR
        bits_per_sample == 24
        block_align == num_channels * (bits_per_sample \div 8)
        byte_rate == sample_rate * block_align
    IN  <<82, 73, 70, 70>> \o LeBytes(RiffSize(len)) \o <<87, 65, 86, 69>>
        \o <<102, 109, 116, 32>> \o LeBytes(U32(16))
        \o LeBytes(audio_format) \o LeBytes(<<num_channels>>)
        \o LeBytes(U32(sample_rate)) \o LeBytes(U32(byte_rate))
        \o LeBytes(<<block_align>>) \o LeBytes(<<bits_per_sample>>)
        \o <<100, 97, 116, 97>> \o LeBytes(DataBytes(len))

\* mutant of Clamp24: the lower bound is not applied
Clamp24UpperOnly(s) == IF s > 8388607 THEN 8388607 ELSE s

\* lines 117-123
Clamp24(s) ==
    LET v1 == IF s > 8388607 THEN 8388607 ELSE s
    IN  IF v1 < -8388608 THEN -8388608 ELSE v1

\* mutant of SampleBytes: most significant byte first
SampleBytesBigEndian(s) ==
    LET v == Clamp24(s)
    IN  <<(v \div 65536) % 256, (v \div 256) % 256, v % 256>>

\* lines 126-129: `v as u32` keeps v's two's-complement bits, so u & 0xFF is
\* v mod 256 and u >> k is the floor division of v by 2^k on the bits kept.
SampleBytes(s) ==
    LET v == Clamp24(s)
    IN  <<v % 256, (v \div 256) % 256, (v \div 65536) % 256>>

\* lines 116-130: three pushes per sample, in input order
SampleData(s) ==
    [j \in 1..(3 * Len(s)) |-> SampleBytes(s[((j - 1) \div 3) + 1])[((j - 1) % 3) + 1]]

build_classic_pcm24_wav_bytes(s) == WavHeader(Len(s)) \o SampleData(s)

----------------------------------------------------------------------------
(* Paths, Option, files, errors *)

None == [some |-> FALSE, val |-> <<>>]
Some(x) == [some |-> TRUE, val |-> x]

\* Path::parent / Path::file_name on a path given by its components
PathParent(path) ==
    IF Len(path) = 0 THEN None ELSE Some(SubSeq(path, 1, Len(path) - 1))
PathFileName(path) ==
    IF Len(path) = 0 THEN None ELSE Some(path[Len(path)])

\* lines 169-182: returns <<tmp_path, parent>>
temp_path_in_same_dir(path) ==
    LET parent == PathParent(path)
        stem == IF PathFileName(path).some THEN PathFileName(path).val
                ELSE "output.wav"
        tmp_name == "." \o stem \o ".tmp"
        tmp_path == IF parent.some THEN Append(parent.val, tmp_name)
                    ELSE <<tmp_name>>
    IN  <<tmp_path, parent>>

TmpPath == temp_path_in_same_dir(out_path)[1]

\* main, line 20
InPath == <<"in.wav">>

Absent == [exists |-> FALSE, data |-> <<>>]
FileOf(bytes) == [exists |-> TRUE, data |-> bytes]

NoErr == [msg |-> "", paths |-> <<>>, vals |-> <<>>]
\* an anyhow error: the outermost message, the paths and the values it formats
Error(msg, paths, vals) == [msg |-> msg, paths |-> paths, vals |-> vals]

Call(op, ok) == [op |-> op, ok |-> ok]

IsPrefix(a, b) == Len(a) <= Len(b) /\ SubSeq(b, 1, Len(a)) = a

\* how many bytes a failing write_all, or the kernel's writeback, may have
\* put down short of the whole buffer: nothing, or the header alone
PartialLens(bytes) == {k \in {0, 44} : k < Len(bytes)}

----------------------------------------------------------------------------
(* Inputs *)

\* sample values a 24-bit file can hold
Pcm24Vals == {-8388608, -1, 8388607}
\* i32 values handed to the encoder directly
I32Vals == {-2147483647, -10000000, -8388609, -8388608, -1, 0, 255, 256,
            8388607, 8388608, 10000000, 2147483647}

InputLens == {1, 1024, 1025}
\* lengths around the largest slice whose sizes fit the u32 fields
BigLens == {1431655753, 1431655754, 1431655765, 1431655766, 1431655777}

SeqsUpTo(S, n) == UNION {[1..k -> S] : k \in 0..n}
Cycle(pat, n) == [i \in 1..n |-> pat[((i - 1) % Len(pat)) + 1]]

InputSamples ==
    {<<>>} \cup {Cycle(pat, n) : pat \in SeqsUpTo(Pcm24Vals, MaxPat) \ {<<>>},
                                n \in InputLens}

Headers == [sample_rate : {TARGET_SR, 44100}, channels : {1, 2},
            sample_format : {"Int", "Float"}, bits_per_sample : {24, 16}]
GoodHeader == [sample_rate |-> TARGET_SR, channels |-> 1,
               sample_format |-> "Int", bits_per_sample |-> 24]

OutPaths == {<<"out.wav">>, <<"d", "out.wav">>}
OldContent == <<79, 76, 68>>
StaleTemp == <<83, 84>>

----------------------------------------------------------------------------
(* One run of main() *)

Init ==
    /\ \/ hdr = GoodHeader /\ input_samples \in InputSamples
       \/ hdr \in Headers \ {GoodHeader} /\ input_samples = <<>>
    /\ out_path \in OutPaths
    /\ \E d \in {Absent, FileOf(OldContent)}, t \in {Absent, FileOf(StaleTemp)} :
           prior = (out_path :> d) @@ (TmpPath :> t)
    /\ pc = "main"
    /\ in_open = FALSE
    /\ samples = <<>>
    /\ wav_bytes = <<>>
    /\ tmp_open = FALSE
    /\ err = NoErr
    /\ fs = prior
    /\ disk = prior
    /\ pending = FALSE
    /\ log = <<>>
    /\ big_len = 0

inputs == <<hdr, input_samples, out_path, prior, big_len>>

\* a `?` or bail! that leaves main: the error reaches the caller
Fail(e) == pc' = "failed" /\ err' = e

\* line 52: WavReader::open(path).with_context(|| format!("open {:?}", path))?
OpenInput ==
    /\ pc = "main"
    /\ \/ /\ in_open' = TRUE
          /\ log' = Append(log, Call("open_in", TRUE))
          /\ pc' = "validate"
          /\ err' = err
       \/ /\ in_open' = FALSE
          /\ log' = Append(log, Call("open_in", FALSE))
          /\ Fail(Error("open", <<InPath>>, <<>>))
    /\ UNCHANGED <<inputs, samples, wav_bytes, tmp_open, fs, disk, pending>>

\* mutant of FormatError: the bit depth is not checked
FormatErrorNoBitDepth(spec) ==
    IF spec.sample_rate # TARGET_SR
    THEN Error("Expected Hz (no resample)", <<>>, <<TARGET_SR, spec.sample_rate>>)
    ELSE IF spec.channels # 1
    THEN Error("Expected mono (1 channel)", <<>>, <<spec.channels>>)
    ELSE IF spec.sample_format # "Int"
    THEN Error("Expected integer PCM", <<>>, <<spec.sample_format>>)
    ELSE NoErr

\* lines 55-66: the first check that fails decides the error
FormatError(spec) ==
    IF spec.sample_rate # TARGET_SR
    THEN Error("Expected Hz (no resample)", <<>>, <<TARGET_SR, spec.sample_rate>>)
    ELSE IF spec.channels # 1
    THEN Error("Expected mono (1 channel)", <<>>, <<spec.channels>>)
    ELSE IF spec.sample_format # "Int"
    THEN Error("Expected integer PCM", <<>>, <<spec.sample_format>>)
    ELSE IF spec.bits_per_sample # 24
    THEN Error("Expected 24-bit PCM", <<>>, <<spec.bits_per_sample>>)
    ELSE NoErr

\* lines 53-66; a bail! drops the reader on the way out
Validate ==
    /\ pc = "validate"
    /\ IF FormatError(hdr) # NoErr
       THEN /\ Fail(FormatError(hdr))
            /\ in_open' = FALSE
            /\ log' = Append(log, Call("close_in", TRUE))
       ELSE /\ pc' = "read"
            /\ UNCHANGED <<err, in_open, log>>
    /\ UNCHANGED <<inputs, samples, wav_bytes, tmp_open, fs, disk, pending>>

\* lines 68-73: every sample is pushed, or the first read error is returned;
\* either way the reader is dropped when read_pcm24_mono returns
ReadSamples ==
    /\ pc = "read"
    /\ \/ /\ samples' = input_samples
          /\ log' = log \o <<Call("read", TRUE), Call("close_in", TRUE)>>
          /\ pc' = "normalize"
          /\ err' = err
       \/ /\ samples' = samples
          /\ log' = log \o <<Call("read", FALSE), Call("close_in", TRUE)>>
          /\ Fail(Error("read sample", <<>>, <<>>))
    /\ in_open' = FALSE
    /\ UNCHANGED <<inputs, wav_bytes, tmp_open, fs, disk, pending>>

\* lines 26-30
NormalizeStep ==
    /\ pc = "normalize"
    /\ samples' = Normalize(samples)
    /\ pc' = "encode"
    /\ UNCHANGED <<inputs, in_open, wav_bytes, tmp_open, err, fs, disk, pending, log>>

\* line 33
Encode ==
    /\ pc = "encode"
    /\ wav_bytes' = build_classic_pcm24_wav_bytes(samples)
    /\ pc' = "create"
    /\ UNCHANGED <<inputs, in_open, samples, tmp_open, err, fs, disk, pending, log>>

\* mutant of CreateTarget: the destination itself is created and truncated
CreateTargetInPlace == out_path

\* the path File::create is given (line 145)
CreateTarget == TmpPath

\* lines 141-146: File::create(&tmp_path) creates or truncates the temp file
CreateTemp ==
    /\ pc = "create"
    /\ \/ /\ fs' = [fs EXCEPT ![CreateTarget] = FileOf(<<>>)]
          /\ tmp_open' = TRUE
          /\ log' = Append(log, Call("create", TRUE))
          /\ pc' = "write"
          /\ err' = err
       \/ /\ log' = Append(log, Call("create", FALSE))
          /\ Fail(Error("create temp file", <<TmpPath>>, <<>>))
          /\ UNCHANGED <<fs, tmp_open>>
    /\ UNCHANGED <<inputs, in_open, samples, wav_bytes, disk, pending>>

\* lines 147-148: write_all puts down the whole buffer, or fails after a part
\* of it; the `?` drops f
WriteAll ==
    /\ pc = "write"
    /\ \/ /\ fs' = [fs EXCEPT ![TmpPath] = FileOf(wav_bytes)]
          /\ log' = Append(log, Call("write_all", TRUE))
          /\ pc' = "flush"
          /\ UNCHANGED <<err, tmp_open>>
       \/ \E k \in PartialLens(wav_bytes) :
          /\ fs' = [fs EXCEPT ![TmpPath] = FileOf(SubSeq(wav_bytes, 1, k))]
          /\ log' = log \o <<Call("write_all", FALSE), Call("close_tmp", TRUE)>>
          /\ tmp_open' = FALSE
          /\ Fail(Error("write temp file", <<TmpPath>>, <<>>))
    /\ UNCHANGED <<inputs, in_open, samples, wav_bytes, disk, pending>>

\* line 149
Flush ==
    /\ pc = "flush"
    /\ \/ /\ log' = Append(log, Call("flush", TRUE))
          /\ pc' = "fsync"
          /\ UNCHANGED <<err, tmp_open>>
       \/ /\ log' = log \o <<Call("flush", FALSE), Call("close_tmp", TRUE)>>
          /\ tmp_open' = FALSE
          /\ Fail(Error("flush temp file", <<>>, <<>>))
    /\ UNCHANGED <<inputs, in_open, samples, wav_bytes, fs, disk, pending>>

\* what a successful sync_all leaves on stable storage
Synced(f, d) == [d EXCEPT ![TmpPath] = f[TmpPath]]

\* mutant of SyncAll: the call is left out
SyncAllOmitted ==
    /\ pc = "fsync"
    /\ pc' = "close"
    /\ UNCHANGED <<inputs, in_open, samples, wav_bytes, tmp_open, err, fs, disk,
                   pending, log>>

\* line 150: sync_all forces the temp file's data and metadata to the disk
SyncAll ==
    /\ pc = "fsync"
    /\ \/ /\ disk' = Synced(fs, disk)
          /\ log' = Append(log, Call("sync_all", TRUE))
          /\ pc' = "close"
          /\ UNCHANGED <<err, tmp_open>>
       \/ /\ log' = log \o <<Call("sync_all", FALSE), Call("close_tmp", TRUE)>>
          /\ tmp_open' = FALSE
          /\ Fail(Error("fsync temp file", <<>>, <<>>))
          /\ disk' = disk
    /\ UNCHANGED <<inputs, in_open, samples, wav_bytes, fs, pending>>

\* line 151: the block ends and f is dropped
CloseTemp ==
    /\ pc = "close"
    /\ tmp_open' = FALSE
    /\ log' = Append(log, Call("close_tmp", TRUE))
    /\ pc' = "rename"
    /\ UNCHANGED <<inputs, in_open, samples, wav_bytes, err, fs, disk, pending>>

\* lines 154-159: rename(2) replaces the destination in one step or not at all
Rename ==
    /\ pc = "rename"
    /\ \/ /\ fs' = [fs EXCEPT ![out_path] = fs[TmpPath], ![TmpPath] = Absent]
          /\ pending' = TRUE
          /\ log' = Append(log, Call("rename", TRUE))
          /\ pc' = "sync_dir"
          /\ err' = err
       \/ /\ log' = Append(log, Call("rename", FALSE))
          /\ Fail(Error("rename temp (must be same filesystem)",
                        <<TmpPath, out_path>>, <<>>))
          /\ UNCHANGED <<fs, pending>>
    /\ UNCHANGED <<inputs, in_open, samples, wav_bytes, tmp_open, disk>>

\* the durable namespace once the pending rename is on the disk: the
\* destination names the temp file's inode with the data that inode has there
RenamePersisted(d) ==
    [d EXCEPT ![out_path] = FileOf(d[TmpPath].data), ![TmpPath] = Absent]

\* lines 191-197: open the directory and fsync it.  The empty path (the parent
\* of a bare file name) cannot be opened.
sync_dir_can_succeed(dir) == dir # <<>>

\* mutant of AfterDirSync: the result is propagated with `?`
AfterDirSyncPropagated(ok, next) ==
    IF ok THEN pc' = next /\ err' = err
    ELSE Fail(Error("sync dir", <<>>, <<>>))

\* what the caller does with sync_dir's result: both callers drop it
AfterDirSync(ok, next) == pc' = next /\ err' = err

\* lines 162-164: if let Some(dir) = parent { let _ = sync_dir(&dir); }
SyncDirInWriter ==
    /\ pc = "sync_dir"
    /\ LET parent == temp_path_in_same_dir(out_path)[2]
       IN  IF parent.some
           THEN \E ok \in {b \in BOOLEAN : b => sync_dir_can_succeed(parent.val)} :
                /\ log' = Append(log, Call("sync_dir", ok))
                /\ IF ok /\ pending
                   THEN disk' = RenamePersisted(disk) /\ pending' = FALSE
                   ELSE UNCHANGED <<disk, pending>>
                /\ AfterDirSync(ok, "sync_parent")
           ELSE /\ pc' = "sync_parent"
                /\ UNCHANGED <<log, disk, pending, err>>
    /\ UNCHANGED <<inputs, in_open, samples, wav_bytes, tmp_open, fs>>

\* line 40: let _ = sync_parent_dir(out_path);  (lines 184-189)
SyncParentDir ==
    /\ pc = "sync_parent"
    /\ LET parent == PathParent(out_path)
       IN  IF parent.some
           THEN \E ok \in {b \in BOOLEAN : b => sync_dir_can_succeed(parent.val)} :
                /\ log' = Append(log, Call("sync_parent_dir", ok))
                /\ IF ok /\ pending
                   THEN disk' = RenamePersisted(disk) /\ pending' = FALSE
                   ELSE UNCHANGED <<disk, pending>>
                /\ AfterDirSync(ok, "print")
           ELSE /\ pc' = "print"
                /\ UNCHANGED <<log, disk, pending, err>>
    /\ UNCHANGED <<inputs, in_open, samples, wav_bytes, tmp_open, fs>>

\* lines 42-47
Finish ==
    /\ pc = "print"
    /\ pc' = "done"
    /\ UNCHANGED <<inputs, in_open, samples, wav_bytes, tmp_open, err, fs, disk,
                   pending, log>>

----------------------------------------------------------------------------
(* The environment: the kernel's writeback, process kill, power loss *)

Running == pc \notin {"done", "failed", "killed", "powerlost"}

\* the kernel writes dirty pages of the temp file back in order: the durable
\* copy becomes a longer prefix of the visible one
Writeback ==
    /\ pc # "powerlost"
    /\ ~pending
    /\ fs[TmpPath].exists
    /\ disk[TmpPath] # fs[TmpPath]
    /\ \E k \in PartialLens(fs[TmpPath].data) \cup {Len(fs[TmpPath].data)} :
          /\ \/ ~disk[TmpPath].exists
             \/ ~IsPrefix(disk[TmpPath].data, fs[TmpPath].data)
             \/ k > Len(disk[TmpPath].data)
          /\ disk' = [disk EXCEPT ![TmpPath] = FileOf(SubSeq(fs[TmpPath].data, 1, k))]
    /\ UNCHANGED <<inputs, pc, in_open, samples, wav_bytes, tmp_open, err, fs,
                   pending, log>>

\* the journal commits the rename without being asked
PersistRename ==
    /\ pc # "powerlost"
    /\ pending
    /\ disk' = RenamePersisted(disk)
    /\ pending' = FALSE
    /\ UNCHANGED <<inputs, pc, in_open, samples, wav_bytes, tmp_open, err, fs, log>>

\* the process is killed between two steps; its handles are closed
Kill ==
    /\ Running
    /\ pc' = "killed"
    /\ in_open' = FALSE
    /\ tmp_open' = FALSE
    /\ UNCHANGED <<inputs, samples, wav_bytes, err, fs, disk, pending, log>>

\* power is lost: what is visible afterwards is what was durable
PowerLoss ==
    /\ pc # "powerlost"
    /\ pc' = "powerlost"
    /\ fs' = disk
    /\ pending' = FALSE
    /\ in_open' = FALSE
    /\ tmp_open' = FALSE
    /\ UNCHANGED <<inputs, samples, wav_bytes, err, disk, log>>

Next ==
    \/ OpenInput \/ Validate \/ ReadSamples \/ NormalizeStep \/ Encode
    \/ CreateTemp \/ WriteAll \/ Flush \/ SyncAll \/ CloseTemp \/ Rename
    \/ SyncDirInWriter \/ SyncParentDir \/ Finish
    \/ Writeback \/ PersistRename \/ Kill \/ PowerLoss

Spec == Init /\ [][Next]_vars

----------------------------------------------------------------------------
(* build_classic_pcm24_wav_bytes on its own *)

EncSlices ==
    SeqsUpTo(I32Vals, MaxEncLen)
        \cup {Cycle(<<v>>, TARGET_SAMPLES) : v \in {-10000000, -1, 8388607}}

InitEnc ==
    /\ \/ samples \in EncSlices /\ big_len = 0
       \/ samples = <<>> /\ big_len \in BigLens
    /\ pc = "enc"
    /\ wav_bytes = <<>>
    /\ hdr = GoodHeader
    /\ input_samples = <<>>
    /\ out_path = <<"out.wav">>
    /\ prior = (out_path :> Absent) @@ (TmpPath :> Absent)
    /\ in_open = FALSE
    /\ tmp_open = FALSE
    /\ err = NoErr
    /\ fs = prior
    /\ disk = prior
    /\ pending = FALSE
    /\ log = <<>>

\* lines 78-133 on a slice that is written out in full
EncodeSlice ==
    /\ pc = "enc"
    /\ big_len = 0
    /\ wav_bytes' = build_classic_pcm24_wav_bytes(samples)
    /\ pc' = "enc_done"
    /\ UNCHANGED <<inputs, in_open, samples, tmp_open, err, fs, disk, pending, log>>

\* lines 79-112 on a slice of big_len samples: the header, which depends on
\* samples.len() alone.  A build without overflow checks wraps line 82.
EncodeHeader ==
    /\ pc = "enc"
    /\ big_len > 0
    /\ wav_bytes' = WavHeader(big_len)
    /\ pc' = "hdr_done"
    /\ UNCHANGED <<inputs, in_open, samples, tmp_open, err, fs, disk, pending, log>>

\* line 82 in a build with overflow checks: the u32 addition panics
EncodePanic ==
    /\ pc = "enc"
    /\ big_len > 0
    /\ RiffSizeOverflows(big_len)
    /\ pc' = "panicked"
    /\ UNCHANGED <<inputs, in_open, samples, wav_bytes, tmp_open, err, fs, disk,
                   pending, log>>

NextEnc == EncodeSlice \/ EncodeHeader \/ EncodePanic

SpecEnc == InitEnc /\ [][NextEnc]_vars

----------------------------------------------------------------------------
(* Properties *)

Range(f) == {f[i] : i \in DOMAIN f}
Called(op, ok) == \E i \in DOMAIN log : log[i] = Call(op, ok)
Attempted(op) == \E i \in DOMAIN log : log[i].op = op
RenameSucceeded == Called("rename", TRUE)
FullLen == 44 + TARGET_SAMPLES * 3

\* a u32 field of the buffer: the 4 bytes after `offset`, as limbs
Field32(bytes, offset) ==
    <<bytes[offset + 1] + 256 * bytes[offset + 2],
      bytes[offset + 3] + 256 * bytes[offset + 4]>>

\* 3 * n and 36 + 3 * n without wrapping, in 64 bits
Times3(n) == LET u == Usize(n) IN WrappingAdd(WrappingAdd(u, u), u)
Plus36Times3(n) == WrappingAdd(Usize(4 + (8 + 16) + 8), Times3(n))

\* the 24-bit two's-complement bytes of c, least significant first
TwosComplement24(c) ==
    LET t == IF c >= 0 THEN c ELSE c + 16777216
    IN  <<t % 256, (t \div 256) % 256, t \div 65536>>

\* a reader's view of the data chunk: three little-endian bytes per sample,
\* sign-extended from 24 bits
Decode24(bytes) ==
    [i \in 1..((Len(bytes) - 44) \div 3) |->
        LET u == bytes[44 + 3 * (i - 1) + 1] + 256 * bytes[44 + 3 * (i - 1) + 2]
                 + 65536 * bytes[44 + 3 * (i - 1) + 3]
        IN  IF u >= 8388608 THEN u - 16777216 ELSE u]

\* C1: in every state, also after a kill, a power loss or a failed step, the
\* destination (as visible and as stored on the disk) is what it was before
\* the run or the complete new buffer, and it is what it was before the run
\* as long as the rename has not succeeded.
C1_DestinationOldOrNew ==
    \A view \in {fs, disk} :
        IF RenameSucceeded
        THEN /\ Len(wav_bytes) = FullLen
             /\ view[out_path] \in {prior[out_path], FileOf(wav_bytes)}
        ELSE view[out_path] = prior[out_path]

\* C1 witness: power was lost while the temp file was partly on the disk and
\* an old destination existed; and the destination is still the old one
C1_Witness ==
    /\ pc = "powerlost"
    /\ prior[out_path] = FileOf(OldContent)
    /\ fs[TmpPath].exists
    /\ Len(fs[TmpPath].data) = 44
    /\ fs[out_path] = FileOf(OldContent)

BadHeader ==
    \/ hdr.sample_rate # 48000
    \/ hdr.channels # 1
    \/ hdr.sample_format = "Float"
    \/ hdr.bits_per_sample # 24

\* C2: with a header off the required profile the run never gets past the
\* validation, ends in an error, performs no create, write or rename, and
\* leaves the file system as it was.
C2_RejectedBeforeAnyWrite ==
    BadHeader =>
        /\ pc \in {"main", "validate", "failed", "killed", "powerlost"}
        /\ pc = "failed" => err # NoErr
        /\ \A i \in DOMAIN log : log[i].op \in {"open_in", "close_in"}
        /\ fs = prior
        /\ disk = prior

\* C2 witness: a 16-bit file, otherwise conforming, was rejected with an old
\* destination in place
C2_Witness ==
    /\ pc = "failed"
    /\ hdr = [GoodHeader EXCEPT !.bits_per_sample = 16]
    /\ err.msg = "Expected 24-bit PCM"
    /\ prior[out_path] = FileOf(OldContent)
    /\ fs[out_path] = FileOf(OldContent)

\* C3 (as claimed): a run that ends by itself after File::create succeeded,
\* in success or in an error, leaves no temp file; a killed process leaves one
\* it created only when killed before the rename.
C3_NoTempLeftBehind ==
    /\ pc = "done" => ~fs[TmpPath].exists
    /\ pc = "failed" /\ Called("create", TRUE) => ~fs[TmpPath].exists
    /\ pc = "killed" /\ Called("create", TRUE) /\ fs[TmpPath].exists
           => ~RenameSucceeded

WriterFailures == {"create", "write_all", "sync_all", "rename"}

\* C4 (as claimed): when create, write, fsync or rename fails, the run ends in
\* an error, the failed call is the last one made (but for dropping the
\* handle), and the error carries the temp path.
C4_WriterErrorsCarryPath ==
    \A i \in DOMAIN log :
        log[i].op \in WriterFailures /\ ~log[i].ok =>
            /\ pc \in {"failed", "powerlost"}
            /\ err # NoErr
            /\ \A j \in (i + 1)..Len(log) : log[j].op = "close_tmp"
            /\ TmpPath \in Range(err.paths)

\* C5: once decoding and create, write, flush, fsync and rename have
\* succeeded, no result of a directory sync makes the run fail: it goes on to
\* success, and at the end the destination holds the new buffer.
C5_DirSyncNeverFatal ==
    RenameSucceeded =>
        /\ pc \in {"sync_dir", "sync_parent", "print", "done", "killed", "powerlost"}
        /\ err = NoErr
        /\ pc = "done" => /\ fs[out_path] = FileOf(wav_bytes)
                          /\ Attempted("sync_dir")
                          /\ Attempted("sync_parent_dir")

\* C5 witness: a run ended in success although both directory syncs failed
C5_Witness ==
    /\ pc = "done"
    /\ Called("sync_dir", FALSE)
    /\ Called("sync_parent_dir", FALSE)
    /\ fs[out_path] = FileOf(wav_bytes)

PostNormalize ==
    pc \in {"encode", "create", "write", "flush", "fsync", "close", "rename",
            "sync_dir", "sync_parent", "print", "done"}

Min(a, b) == IF a < b THEN a ELSE b

\* C6: after the normalizer step the sequence has exactly 1024 samples, the
\* first min(n, 1024) are the decoded ones and the rest are zero; no run fails
\* between a successful read and the first step of the writer.
C6_NormalizerExact ==
    /\ PostNormalize =>
          /\ Len(samples) = 1024
          /\ \A i \in 1..Min(Len(input_samples), 1024) : samples[i] = input_samples[i]
          /\ \A i \in (Len(input_samples) + 1)..1024 : samples[i] = 0
    /\ pc = "failed" /\ Called("read", TRUE) => Attempted("create")

\* C6 witness: a one-sample input was padded
C6_Witness ==
    /\ pc = "encode"
    /\ Len(input_samples) = 1
    /\ samples[1] = input_samples[1]
    /\ samples[1] # 0
    /\ samples[1024] = 0

EncLen == IF big_len > 0 THEN big_len ELSE Len(samples)

\* C7 (as claimed): for a slice of any length n the buffer has 44 + 3n bytes,
\* the field at offset 40 is 3n and the field at offset 4 is 36 + 3n.
C7_SizesForAnyLength ==
    /\ pc \in {"enc_done", "hdr_done"} =>
          /\ AsUsize(Field32(wav_bytes, 40)) = Times3(EncLen)
          /\ AsUsize(Field32(wav_bytes, 4)) = Plus36Times3(EncLen)
    /\ pc = "enc_done" => Len(wav_bytes) = 44 + 3 * Len(samples)
    /\ pc # "panicked"

\* the longest slice whose 36 + 3n fits 32 bits: 36 + 3n <= 2^32 - 1
FitsU32(n) == n <= 1431655753

\* C7 (amended): the same for every length n with 36 + 3n <= 2^32 - 1, and
\* then line 82 does not overflow; for 1024 samples the data chunk is 3072
\* bytes and the buffer 44 + 1024 * 3.
C7_SizesWhenTheyFit ==
    /\ FitsU32(EncLen) =>
          /\ pc \in {"enc_done", "hdr_done"} =>
                /\ AsUsize(Field32(wav_bytes, 40)) = Times3(EncLen)
                /\ AsUsize(Field32(wav_bytes, 4)) = Plus36Times3(EncLen)
          /\ pc = "enc_done" => Len(wav_bytes) = 44 + 3 * Len(samples)
          /\ pc # "panicked"
          /\ ~RiffSizeOverflows(EncLen)
    /\ pc = "enc_done" /\ Len(samples) = 1024 =>
          /\ Field32(wav_bytes, 40) = <<3072, 0>>
          /\ Len(wav_bytes) = 44 + 1024 * 3

\* C7 witness: 1024 samples were encoded
C7_Witness ==
    /\ pc = "enc_done"
    /\ Len(samples) = 1024
    /\ Len(wav_bytes) = 3116
    /\ SubSeq(wav_bytes, 41, 44) = <<0, 12, 0, 0>>
    /\ SubSeq(wav_bytes, 5, 8) = <<36, 12, 0, 0>>

ClaimedClamp(s) ==
    IF s > 8388607 THEN 8388607 ELSE IF s < -8388608 THEN -8388608 ELSE s

\* C8: every sample of the slice, whatever its i32 value, is in the buffer as
\* the three little-endian two's-complement bytes of its clamped value, at
\* offset 44 + 3 * (its index); no sample is left out.
C8_ClampedLittleEndian ==
    /\ pc = "enc_done" =>
          /\ Len(wav_bytes) = 44 + 3 * Len(samples)
          /\ \A i \in 1..Len(samples) :
                SubSeq(wav_bytes, 44 + 3 * (i - 1) + 1, 44 + 3 * i)
                    = TwosComplement24(ClaimedClamp(samples[i]))

\* C8 witness: 10,000,000 then -10,000,000 were encoded as 0x7FFFFF, 0x800000
C8_Witness ==
    /\ pc = "enc_done"
    /\ samples = <<10000000, -10000000>>
    /\ SubSeq(wav_bytes, 45, 50) = <<255, 255, 127, 0, 0, 128>>

\* C9: after a successful run on an input of exactly 1024 samples, decoding
\* the destination's data bytes gives back the input samples.
C9_RoundTrip ==
    pc = "done" /\ Len(input_samples) = 1024 =>
        /\ fs[out_path].exists
        /\ \A i \in 1..1024 : input_samples[i] \in -8388608..8388607
        /\ Decode24(fs[out_path].data) = input_samples

\* C9 witness: a run on 1024 samples holding the most negative value ended
C9_Witness ==
    /\ pc = "done"
    /\ Len(input_samples) = 1024
    /\ input_samples[1] = -8388608
    /\ Decode24(fs[out_path].data)[1] = -8388608

\* the calls before the i-th one hold these, in this order
Precede(i, calls) ==
    \E f \in [1..Len(calls) -> 1..(i - 1)] :
        /\ \A k \in 1..Len(calls) : log[f[k]] = calls[k]
        /\ \A k \in 1..(Len(calls) - 1) : f[k] < f[k + 1]

\* C10: a rename is attempted only after write_all, flush and sync_all have
\* succeeded and the temp handle was closed, in this order, with the whole
\* buffer in the temp file and on the disk; the temp file is created only
\* after the input handle was closed.
C10_RenameAfterDurableClose ==
    /\ \A i \in DOMAIN log :
          /\ log[i].op = "rename" =>
                Precede(i, <<Call("write_all", TRUE), Call("flush", TRUE),
                             Call("sync_all", TRUE), Call("close_tmp", TRUE)>>)
          /\ log[i].op = "create" => Precede(i, <<Call("close_in", TRUE)>>)
    /\ pc = "rename" =>
          /\ ~tmp_open
          /\ fs[TmpPath] = FileOf(wav_bytes)
          /\ disk[TmpPath] = FileOf(wav_bytes)
          /\ Len(wav_bytes) = FullLen
    /\ pc = "create" => ~in_open

\* C10 witness: a rename was made
C10_Witness ==
    /\ pc = "sync_dir"
    /\ Called("rename", TRUE)
    /\ fs[out_path] = FileOf(wav_bytes)

====
